---- MODULE Spec2Model ----
(***************************************************************************)
(* teacher_resource_summary_app.py: the per-file ingestion loop, the       *)
(* contributor and date filters, and the construction of the summary       *)
(* table.  Text is modelled by TLA+ strings, on which TLC evaluates Len,   *)
(* Head, Tail, SubSeq and \o.                                              *)
(***************************************************************************)
EXTENDS Integers, Sequences, FiniteSets, TLC

-----------------------------------------------------------------------------
(* Bounds of the model *)

\* the number of files uploaded in one run is at most MaxFiles
MaxFiles == 2

\* the date picker offers PickDays consecutive calendar days
PickDays == 3

-----------------------------------------------------------------------------
(* Python str *)

\* the characters the model's texts use, in code point order
CodePoints == " ()-./0123456789:ABCDEFGHIJKLMNOPQRSTUVWXYZ_abcdefghijklmnopqrstuvwxyz"

UpperLetters == "ABCDEFGHIJKLMNOPQRSTUVWXYZ"

LowerLetters == "abcdefghijklmnopqrstuvwxyz"

Digits == "0123456789"

Char(s, i) == SubSeq(s, i, i)

\* s.find(c) + 1 for a single character c: 0 when c does not occur
IndexIn(c, s) ==
  IF \E i \in 1..Len(s) : Char(s, i) = c
  THEN CHOOSE i \in 1..Len(s) : Char(s, i) = c /\ \A j \in 1..(i - 1) : Char(s, j) # c
  ELSE 0

LowerChar(c) ==
  LET i == IndexIn(c, UpperLetters) IN IF i = 0 THEN c ELSE Char(LowerLetters, i)

UpperChar(c) ==
  LET i == IndexIn(c, LowerLetters) IN IF i = 0 THEN c ELSE Char(UpperLetters, i)

RECURSIVE Lower(_)
\* str.lower()
Lower(s) == IF s = "" THEN "" ELSE LowerChar(Head(s)) \o Lower(Tail(s))

\* str.capitalize(): the first character upper-cased, the rest lower-cased
Capitalize(s) == IF s = "" THEN "" ELSE UpperChar(Head(s)) \o Lower(Tail(s))

RECURSIVE LStrip(_)
LStrip(s) == IF s # "" /\ Head(s) = " " THEN LStrip(Tail(s)) ELSE s

RECURSIVE RStrip(_)
RStrip(s) ==
  IF s # "" /\ Char(s, Len(s)) = " " THEN RStrip(SubSeq(s, 1, Len(s) - 1)) ELSE s

\* str.strip()
Strip(s) == RStrip(LStrip(s))

\* str.endswith(suffix)
EndsWith(s, suffix) ==
  /\ Len(suffix) <= Len(s)
  /\ SubSeq(s, Len(s) - Len(suffix) + 1, Len(s)) = suffix

RECURSIVE StrLess(_, _)
\* a < b on str: lexicographic by code point
StrLess(a, b) ==
  IF b = "" THEN FALSE
  ELSE IF a = "" THEN TRUE
  ELSE IF Head(a) = Head(b) THEN StrLess(Tail(a), Tail(b))
  ELSE IndexIn(Head(a), CodePoints) < IndexIn(Head(b), CodePoints)

RECURSIVE SortStrings(_)
\* sorted(S) for a finite set S of str
SortStrings(S) ==
  IF S = {} THEN <<>>
  ELSE LET m == CHOOSE x \in S : \A y \in S \ {x} : StrLess(x, y)
       IN <<m>> \o SortStrings(S \ {m})

\* os.path.splitext(name)[0] for a name without directory separators: the
\* name up to its last dot, unless only dots come before that dot
SplitExtRoot(name) ==
  LET dots == {i \in 1..Len(name) : Char(name, i) = "."}
      last == CHOOSE i \in dots : \A j \in dots : j <= i
  IN IF dots # {} /\ (\E j \in 1..(last - 1) : Char(name, j) # ".")
     THEN SubSeq(name, 1, last - 1)
     ELSE name

-----------------------------------------------------------------------------
(* re.search(r"(quiz|lesson|exam|forum|activity)", s) *)

Tokens == <<"quiz", "lesson", "exam", "forum", "activity">>

NoMatch == ""

MatchesAt(s, i, t) ==
  /\ i + Len(t) - 1 <= Len(s)
  /\ SubSeq(s, i, i + Len(t) - 1) = t

\* group(1) of the leftmost match, the first alternative that matches
\* there; NoMatch when the pattern matches nowhere
ReSearch(s) ==
  LET hits == {i \in 1..Len(s) : \E k \in 1..Len(Tokens) : MatchesAt(s, i, Tokens[k])}
      at == CHOOSE i \in hits : \A j \in hits : i <= j
      alt == CHOOSE k \in 1..Len(Tokens) :
               /\ MatchesAt(s, at, Tokens[k])
               /\ \A l \in 1..(k - 1) : ~MatchesAt(s, at, Tokens[l])
  IN IF hits = {} THEN NoMatch ELSE Tokens[alt]

-----------------------------------------------------------------------------
(* pandas timestamps: a calendar day (days since 1970-01-01) and the        *)
(* milliseconds since that day's midnight; NaT is the missing timestamp     *)

MsPerSecond == 1000

MsPerDay == 86400000

NaT == [isna |-> TRUE, day |-> 0, ms |-> 0]

Timestamp(day, ms) == [isna |-> FALSE, day |-> day, ms |-> ms]

\* a <= b on timestamps; every comparison with NaT is False
TsLe(a, b) ==
  /\ ~a.isna
  /\ ~b.isna
  /\ (a.day < b.day \/ (a.day = b.day /\ a.ms <= b.ms))

\* ts + pd.Timedelta of deltaMs milliseconds (deltaMs may be negative)
TsAdd(ts, deltaMs) ==
  IF ts.isna THEN NaT
  ELSE Timestamp(ts.day + ((ts.ms + deltaMs) \div MsPerDay), (ts.ms + deltaMs) % MsPerDay)

IsDigits(s) == s # "" /\ \A i \in 1..Len(s) : IndexIn(Char(s, i), Digits) # 0

RECURSIVE ParseInt(_)
\* int(s) for a string of decimal digits
ParseInt(s) ==
  IF s = "" THEN 0
  ELSE 10 * ParseInt(SubSeq(s, 1, Len(s) - 1)) + (IndexIn(Char(s, Len(s)), Digits) - 1)

IsLeap(y) == (y % 4 = 0 /\ y % 100 # 0) \/ y % 400 = 0

DaysInMonth(y, m) ==
  IF m = 2 THEN (IF IsLeap(y) THEN 29 ELSE 28)
  ELSE IF m \in {4, 6, 9, 11} THEN 30 ELSE 31

\* the proleptic Gregorian day number of y-m-d, counted from 1970-01-01
DaysFromCivil(y, m, d) ==
  LET yy == IF m <= 2 THEN y - 1 ELSE y
      era == yy \div 400
      yoe == yy - era * 400
      mp == (m + 9) % 12
      doy == ((153 * mp + 2) \div 5) + d - 1
      doe == yoe * 365 + (yoe \div 4) - (yoe \div 100) + doy
  IN era * 146097 + doe - 719468

\* "YYYY-MM-DD" as a day number, -1 when the text is no such date
ParseDate(s) ==
  IF /\ Len(s) = 10
     /\ Char(s, 5) = "-"
     /\ Char(s, 8) = "-"
     /\ IsDigits(SubSeq(s, 1, 4))
     /\ IsDigits(SubSeq(s, 6, 7))
     /\ IsDigits(SubSeq(s, 9, 10))
  THEN LET y == ParseInt(SubSeq(s, 1, 4))
           m == ParseInt(SubSeq(s, 6, 7))
           d == ParseInt(SubSeq(s, 9, 10))
       IN IF m \in 1..12 /\ d >= 1 /\ d <= DaysInMonth(y, m)
          THEN DaysFromCivil(y, m, d)
          ELSE -1
  ELSE -1

\* "HH:MM:SS" or "HH:MM:SS.mmm" as milliseconds since midnight, -1 when the
\* text is no such time
ParseTime(s) ==
  IF /\ Len(s) \in {8, 12}
     /\ Char(s, 3) = ":"
     /\ Char(s, 6) = ":"
     /\ IsDigits(SubSeq(s, 1, 2))
     /\ IsDigits(SubSeq(s, 4, 5))
     /\ IsDigits(SubSeq(s, 7, 8))
     /\ (Len(s) = 12 => Char(s, 9) = "." /\ IsDigits(SubSeq(s, 10, 12)))
  THEN LET h == ParseInt(SubSeq(s, 1, 2))
           mi == ParseInt(SubSeq(s, 4, 5))
           sec == ParseInt(SubSeq(s, 7, 8))
           frac == IF Len(s) = 12 THEN ParseInt(SubSeq(s, 10, 12)) ELSE 0
       IN IF h < 24 /\ mi < 60 /\ sec < 60
          THEN ((h * 60 + mi) * 60 + sec) * MsPerSecond + frac
          ELSE -1
  ELSE -1

\* a missing cell value (NaN / None)
NaN == "<NaN>"

\* pd.to_datetime(cell, errors="coerce") on the ISO texts "YYYY-MM-DD",
\* "YYYY-MM-DD HH:MM:SS" and "YYYY-MM-DD HH:MM:SS.mmm"; a missing value and
\* any other text are coerced to NaT
ToDatetime(cell) ==
  IF cell = NaN \/ Len(cell) < 10 THEN NaT
  ELSE LET day == ParseDate(SubSeq(cell, 1, 10))
           ms == IF Len(cell) = 10 THEN 0
                 ELSE IF Char(cell, 11) = " " THEN ParseTime(SubSeq(cell, 12, Len(cell)))
                 ELSE -1
       IN IF day < 0 \/ ms < 0 THEN NaT ELSE Timestamp(day, ms)

-----------------------------------------------------------------------------
(* Uploaded files.  A file is its name, whether the first 2048 bytes sniff  *)
(* as SpreadsheetML (head_xml), whether its parser reads it (readable),     *)
(* whether the XML holds an ss:Table (has_table), and its grid of cell      *)
(* texts, header row first (NaN: an empty cell)                            *)

Range(f) == {f[i] : i \in DOMAIN f}

UploadedFile(name, head_xml, readable, has_table, grid) ==
  [name |-> name, head_xml |-> head_xml, readable |-> readable,
   has_table |-> has_table, grid |-> grid]

\* The files a run draws its uploads from.  Every table has distinct labels
\* once trimmed, and the dates of one column share one format; the names
\* cover a keyword in mixed case, two keywords, no keyword, and a name whose
\* capitalized root is "Total"
FilePool ==
  { UploadedFile("Weekly_Quiz_Report.csv", FALSE, TRUE, FALSE,
      << <<" Teacher Name ", "Created Date">>,
         <<" Alice ", "2024-03-10 08:00:00">>,
         <<"Bob", "2024-03-10 23:59:59">>,
         <<"   ", "2024-03-10 09:00:00">> >>),
    UploadedFile("custom_export.csv", FALSE, TRUE, FALSE,
      << <<"Created By", "Created Date">>,
         <<"Alice", "2024-03-11">>,
         <<"Bob", NaN>>,
         <<NaN, "2024-03-11">> >>),
    UploadedFile("total.xlsx", FALSE, TRUE, FALSE,
      << <<"Name">>, <<"Alice">>, <<"Bob">> >>),
    UploadedFile("Exam_Lessons.xml", TRUE, TRUE, TRUE,
      << <<"Created By", " Teacher Name", "Created Date">>,
         <<"admin", "Bob ", "2024-03-10 23:59:59.500">>,
         <<"admin", "Alice", "2024-03-09 00:00:00.000">>,
         <<"admin", "Bob", "not a date">> >>),
    UploadedFile("forum.xml", TRUE, TRUE, FALSE, <<>>),
    UploadedFile("activity_log.xml", TRUE, TRUE, TRUE,
      << <<"Teacher Name", "Created Date">> >>),
    UploadedFile("grades.xlsx", FALSE, TRUE, FALSE,
      << <<"Student", "Score">>, <<"Alice", "90">> >>),
    UploadedFile("broken.xls", FALSE, FALSE, FALSE, <<>>) }

\* the sequences of at most n distinct files of the pool
UploadLists(n) ==
  UNION { {s \in [1..k -> FilePool] : \A i, j \in 1..k : i # j => s[i] # s[j]} : k \in 0..n }

-----------------------------------------------------------------------------
(* The body of the per-file try block *)

DataFrame(rows, columns) == [columns |-> columns, rows |-> rows]

\* the text of an ss:Data element, stripped; "" when the cell has none
CellText(v) == IF v = NaN THEN "" ELSE Strip(v)

\* data: one list of cell texts per ss:Row
XmlData(grid) ==
  [i \in 1..Len(grid) |-> [j \in 1..Len(grid[i]) |-> CellText(grid[i][j])]]

Result(status, df, text) == [status |-> status, df |-> df, text |-> text]

NoFrame == DataFrame(<<>>, <<>>)

\* sniffing and parsing: the table of the file, a skip with its warning, or
\* an exception raised by the parser
ReadTable(file) ==
  IF file.head_xml
  THEN IF ~file.readable THEN Result("raised", NoFrame, "not well-formed")
       ELSE IF file.has_table
       THEN LET data == XmlData(file.grid)
            IN IF Len(data) < 2
               THEN Result("skipped", NoFrame,
                           "Skipped " \o file.name \o " due to insufficient rows.")
               ELSE Result("ok", DataFrame(Tail(data), data[1]), "")
       ELSE Result("skipped", NoFrame,
                   "Skipped " \o file.name \o " due to missing XML table.")
  ELSE IF EndsWith(file.name, ".csv")
  THEN IF ~file.readable THEN Result("raised", NoFrame, "Error tokenizing data")
       ELSE Result("ok", DataFrame(Tail(file.grid), file.grid[1]), "")
  ELSE IF ~file.readable THEN Result("raised", NoFrame, "Excel file format cannot be determined")
       ELSE Result("ok", DataFrame(Tail(file.grid), file.grid[1]), "")

\* df.columns.str.strip()
StripColumns(columns) == [i \in 1..Len(columns) |-> Strip(columns[i])]

Rename(columns, from, to) ==
  [i \in 1..Len(columns) |-> IF columns[i] = from THEN to ELSE columns[i]]

\* ResolveTeacherColumn with the two aliases tried in the other order
ResolveCreatedByFirst(columns) ==
  IF "Created By" \in Range(columns) THEN Rename(columns, "Created By", "Teacher Name")
  ELSE IF "Teacher Name" \in Range(columns) THEN columns
  ELSE IF Len(columns) = 1 THEN <<"Teacher Name">>
  ELSE <<>>

\* the column labels once the contributor column is called "Teacher Name";
\* <<>> when the file has no such column and is skipped
ResolveTeacherColumn(columns) ==
  IF "Teacher Name" \in Range(columns) THEN columns
  ELSE IF "Created By" \in Range(columns) THEN Rename(columns, "Created By", "Teacher Name")
  ELSE IF Len(columns) = 1 THEN <<"Teacher Name">>
  ELSE <<>>

\* the position of a label among the column labels
ColumnIndex(columns, label) ==
  CHOOSE i \in 1..Len(columns) :
    columns[i] = label /\ \A j \in 1..(i - 1) : columns[j] # label

\* .fillna("").astype(str).str.strip()
CleanName(v) == IF v = NaN THEN "" ELSE Strip(v)

\* SearchedName without the call of lower()
SearchedNameAsGiven(name) == name

\* the name the regular expression is searched in
SearchedName(name) == Lower(name)

\* resource_type
ResourceType(name) ==
  LET m == ReSearch(SearchedName(name))
  IN IF m # NoMatch THEN Capitalize(m) ELSE Capitalize(SplitExtRoot(name))

Record(teacher, created, rtype) ==
  [teacher |-> teacher, created |-> created, rtype |-> rtype]

\* A normalized frame keeps the three columns the rest of the script reads:
\* has_date tells whether the frame has a "Created Date" column
Frame(has_date, rows) == [has_date |-> has_date, rows |-> rows]

\* lines 70 to 78 on a table whose columns are resolved
NormalizedFrame(columns, rows, name) ==
  LET t == ColumnIndex(columns, "Teacher Name")
      cleaned == [i \in 1..Len(rows) |-> [rows[i] EXCEPT ![t] = CleanName(@)]]
      kept == SelectSeq(cleaned, LAMBDA r : r[t] # "")
      has_date == "Created Date" \in Range(columns)
      d == ColumnIndex(columns, "Created Date")
      rtype == ResourceType(name)
  IN Frame(has_date,
           [i \in 1..Len(kept) |->
              Record(kept[i][t],
                     IF has_date THEN ToDatetime(kept[i][d]) ELSE NaT,
                     rtype)])

\* One pass of the try block: "ok" with the frame to append, "skipped" with
\* the warning shown before continue, "raised" with the exception's text
TryFile(file) ==
  LET read == ReadTable(file)
      columns == ResolveTeacherColumn(StripColumns(read.df.columns))
  IN IF read.status # "ok" THEN Result(read.status, Frame(FALSE, <<>>), read.text)
     ELSE IF columns = <<>>
     THEN Result("skipped", Frame(FALSE, <<>>),
                 "Skipped " \o file.name \o " due to unknown teacher column.")
     ELSE Result("ok", NormalizedFrame(columns, read.df.rows, file.name), "")

Message(level, text) == [level |-> level, text |-> text]

-----------------------------------------------------------------------------
(* The filters and the summary table *)

RECURSIVE Concat(_)
\* pd.concat(frames, ignore_index=True): the rows in list order; the result
\* has a "Created Date" column when some frame has one
Concat(frames) ==
  IF frames = <<>> THEN Frame(FALSE, <<>>)
  ELSE LET rest == Concat(Tail(frames))
       IN Frame(Head(frames).has_date \/ rest.has_date, Head(frames).rows \o rest.rows)

all_option == "All (Select All)"

\* teacher_names: the distinct contributors, sorted
TeacherNames(df) == SortStrings({df.rows[i].teacher : i \in 1..Len(df.rows)})

\* SelectedTeachers with an empty selection taken for every teacher
SelectedTeachersEmptyIsAll(selection, teacher_names) ==
  IF all_option \in selection \/ selection = {} THEN Range(teacher_names) ELSE selection

\* the teachers the isin filter tests against, for the widget's selection
SelectedTeachers(selection, teacher_names) ==
  IF all_option \in selection THEN Range(teacher_names) ELSE selection

\* combined_df[combined_df["Teacher Name"].isin(selected_teachers)]
IsinFilter(df, selected_teachers) ==
  Frame(df.has_date, SelectSeq(df.rows, LAMBDA r : r.teacher \in selected_teachers))

\* whether the date widget is shown and the date filter applied
HasDates(df) == df.has_date /\ \E i \in 1..Len(df.rows) : ~df.rows[i].created.isna

\* pd.to_datetime of a calendar date: its midnight
Midnight(day) == Timestamp(day, 0)

start_date(date_range) == Midnight(date_range[1])

end_date(date_range) == TsAdd(TsAdd(Midnight(date_range[2]), MsPerDay), -MsPerSecond)

\* the rows whose Created Date lies between start_date and end_date
DateFilter(df, date_range) ==
  Frame(df.has_date,
        SelectSeq(df.rows, LAMBDA r : /\ TsLe(start_date(date_range), r.created)
                                      /\ TsLe(r.created, end_date(date_range))))

RECURSIVE Sum(_)
Sum(xs) == IF xs = <<>> THEN 0 ELSE Head(xs) + Sum(Tail(xs))

\* UnstackColumns with the categories in the order the rows first show them
UnstackColumnsAsSeen(rows) ==
  LET RECURSIVE Seen(_)
      Seen(n) == IF n = 0 THEN <<>>
                 ELSE IF \E i \in 1..(n - 1) : rows[i].rtype = rows[n].rtype
                 THEN Seen(n - 1)
                 ELSE Append(Seen(n - 1), rows[n].rtype)
  IN Seen(Len(rows))

\* the column labels unstack gives the categories: sorted
UnstackColumns(rows) == SortStrings({rows[i].rtype : i \in 1..Len(rows)})

\* the row labels groupby gives the contributors: sorted
GroupKeys(rows) == SortStrings({rows[i].teacher : i \in 1..Len(rows)})

GroupSize(rows, teacher, rtype) ==
  Cardinality({i \in 1..Len(rows) : rows[i].teacher = teacher /\ rows[i].rtype = rtype})

\* A table: the "Teacher Name" column (names), the labels of the columns
\* after it (columns) and their values row by row (cells), and the "No."
\* column (no), <<n>> for a number and <<>> for None
Table(names, columns, cells, no) ==
  [names |-> names, columns |-> columns, cells |-> cells, no |-> no]

NoTable == Table(<<>>, <<>>, <<>>, <<>>)

\* groupby(["Teacher Name", "Resource Type"]).size().unstack(fill_value=0)
\* .reset_index(), sorted by "Teacher Name"
GroupUnstack(rows) ==
  LET names == GroupKeys(rows)
      columns == UnstackColumns(rows)
  IN Table(names, columns,
           [i \in 1..Len(names) |->
              [j \in 1..Len(columns) |-> GroupSize(rows, names[i], columns[j])]],
           <<>>)

\* summary["Total"] = summary.iloc[:, 1:].sum(axis=1): assigning to a label
\* the table already has overwrites that column, otherwise a column is added
WithTotalColumn(t) ==
  IF "Total" \in Range(t.columns)
  THEN LET k == ColumnIndex(t.columns, "Total")
       IN [t EXCEPT !.cells = [i \in 1..Len(t.cells) |->
                                 [t.cells[i] EXCEPT ![k] = Sum(t.cells[i])]]]
  ELSE [t EXCEPT !.columns = Append(t.columns, "Total"),
                 !.cells = [i \in 1..Len(t.cells) |-> Append(t.cells[i], Sum(t.cells[i]))]]

\* summary.loc[len(summary)] = ["Total"] + the sums of the columns
WithTotalRow(t) ==
  [t EXCEPT !.names = Append(t.names, "Total"),
            !.cells = Append(t.cells,
                             [j \in 1..Len(t.columns) |->
                                Sum([i \in 1..Len(t.cells) |-> t.cells[i][j]])])]

\* summary.insert(0, "No.", list(range(1, len(summary))) + [None])
WithNumbers(t) ==
  [t EXCEPT !.no = [i \in 1..Len(t.names) |-> IF i < Len(t.names) THEN <<i>> ELSE <<>>]]

Summary(rows) == WithNumbers(WithTotalRow(WithTotalColumn(GroupUnstack(rows))))

\* the positions in a sequence of the entries other than drop
Others(labels, drop) ==
  LET RECURSIVE From(_)
      From(j) == IF j > Len(labels) THEN <<>>
                 ELSE IF labels[j] = drop THEN From(j + 1)
                 ELSE <<j>> \o From(j + 1)
  IN From(1)

\* chart_data: the rows but the last, without the "No." and "Total" columns
ChartData(t) ==
  LET keep == Others(t.columns, "Total")
      n == Len(t.names) - 1
  IN Table(SubSeq(t.names, 1, n),
           [j \in 1..Len(keep) |-> t.columns[keep[j]]],
           [i \in 1..n |-> [j \in 1..Len(keep) |-> t.cells[i][keep[j]]]],
           <<>>)

\* pie_data: the "Total" column of the rows but the last
PieData(t) ==
  LET k == ColumnIndex(t.columns, "Total")
  IN [i \in 1..(Len(t.names) - 1) |-> t.cells[i][k]]

NoView == [summary |-> NoTable, chart_data |-> NoTable, pie_data |-> <<>>,
           download |-> FALSE, notice |-> ""]

\* IsEmpty with the empty branch never taken
IsEmptyNever(df) == FALSE

\* whether the filtered frame takes the "No data after filtering" branch
IsEmpty(df) == df.rows = <<>>

\* what the script shows for a filtered frame: the warning, or the table,
\* the two charts and the download
View(filtered) ==
  IF IsEmpty(filtered)
  THEN [NoView EXCEPT !.notice = "No data after filtering."]
  ELSE LET t == Summary(filtered.rows)
       IN [summary |-> t, chart_data |-> ChartData(t), pie_data |-> PieData(t),
           download |-> TRUE, notice |-> ""]

\* lines 86 to 152 for the frames in raw and the values of the two widgets
\* (date_range is read only when the date widget is shown)
Aggregate(raw, selection, date_range) ==
  LET combined == Concat(raw)
      by_teacher == IsinFilter(combined, SelectedTeachers(selection, TeacherNames(combined)))
      filtered == IF HasDates(by_teacher) THEN DateFilter(by_teacher, date_range)
                  ELSE by_teacher
  IN [by_teacher |-> by_teacher, filtered |-> filtered, view |-> View(filtered)]

\* the first day the date picker offers
FirstPickDay == ParseDate("2024-03-09")

PickableDays == FirstPickDay..(FirstPickDay + PickDays - 1)

NoRange == <<0, 0>>

-----------------------------------------------------------------------------
(* One run of the script *)

VARIABLES
  uploaded_files,   \* the files of the uploader, in order
  idx,              \* the position of the for loop in uploaded_files
  raw_data,         \* the frames appended so far
  messages,         \* the st.warning / st.error / st.info calls, in order
  pc,               \* "ingest": in the loop; "done": the script has run
  selection,        \* the value of the teacher multiselect
  date_range,       \* the value of the date input, NoRange when not shown
  by_teacher,       \* filtered_df after line 99
  filtered_df,      \* filtered_df at line 113
  view              \* the table, charts and download the script shows

vars == <<uploaded_files, idx, raw_data, messages, pc, selection, date_range,
          by_teacher, filtered_df, view>>

Init ==
  /\ uploaded_files \in UploadLists(MaxFiles)
  /\ idx = 1
  /\ raw_data = <<>>
  /\ messages = <<>>
  /\ pc = "ingest"
  /\ selection = {}
  /\ date_range = NoRange
  /\ by_teacher = Frame(FALSE, <<>>)
  /\ filtered_df = Frame(FALSE, <<>>)
  /\ view = NoView

\* ProcessFile without the except clause: an exception ends the script
ProcessFileUncaught ==
  /\ pc = "ingest"
  /\ idx <= Len(uploaded_files)
  /\ LET file == uploaded_files[idx]
         res == TryFile(file)
     IN /\ raw_data' = IF res.status = "ok" THEN Append(raw_data, res.df) ELSE raw_data
        /\ messages' =
             IF res.status = "skipped" THEN Append(messages, Message("warning", res.text))
             ELSE messages
        /\ pc' = IF res.status = "raised" THEN "done" ELSE pc
  /\ idx' = idx + 1
  /\ UNCHANGED <<uploaded_files, selection, date_range, by_teacher, filtered_df, view>>

\* One iteration of the for loop: the try block on uploaded_files[idx].  A
\* skip warns and continues, an exception is caught and shown, and either
\* way the loop goes on to the next file
ProcessFile ==
  /\ pc = "ingest"
  /\ idx <= Len(uploaded_files)
  /\ LET file == uploaded_files[idx]
         res == TryFile(file)
     IN /\ raw_data' = IF res.status = "ok" THEN Append(raw_data, res.df) ELSE raw_data
        /\ messages' =
             IF res.status = "skipped" THEN Append(messages, Message("warning", res.text))
             ELSE IF res.status = "raised"
             THEN Append(messages,
                         Message("error", "Error processing " \o file.name \o ": " \o res.text))
             ELSE messages
  /\ idx' = idx + 1
  /\ UNCHANGED <<uploaded_files, pc, selection, date_range, by_teacher, filtered_df, view>>

\* The else branch of "if raw_data": nothing was ingested
NoData ==
  /\ pc = "ingest"
  /\ idx > Len(uploaded_files)
  /\ raw_data = <<>>
  /\ messages' = Append(messages, Message("info", "Please upload one or more resource files."))
  /\ pc' = "done"
  /\ UNCHANGED <<uploaded_files, idx, raw_data, selection, date_range, by_teacher,
                 filtered_df, view>>

\* The "if raw_data" branch, for the values the user gave the two widgets
Render ==
  /\ pc = "ingest"
  /\ idx > Len(uploaded_files)
  /\ raw_data # <<>>
  /\ LET combined == Concat(raw_data)
         options == {all_option} \cup Range(TeacherNames(combined))
     IN \E sel \in SUBSET options :
          \E d1, d2 \in PickableDays :
            LET shown == HasDates(IsinFilter(combined,
                                    SelectedTeachers(sel, TeacherNames(combined))))
                range == IF shown THEN <<d1, d2>> ELSE NoRange
                out == Aggregate(raw_data, sel, range)
            IN /\ d1 <= d2
               /\ selection' = sel
               /\ date_range' = range
               /\ by_teacher' = out.by_teacher
               /\ filtered_df' = out.filtered
               /\ view' = out.view
               /\ messages' = IF out.view.notice = "" THEN messages
                              ELSE Append(messages, Message("warning", out.view.notice))
  /\ pc' = "done"
  /\ UNCHANGED <<uploaded_files, idx, raw_data>>

\* Streamlit runs the script again from the top on the next interaction
Rerun ==
  /\ pc = "done"
  /\ pc' = "ingest"
  /\ idx' = 1
  /\ raw_data' = <<>>
  /\ messages' = <<>>
  /\ selection' = {}
  /\ date_range' = NoRange
  /\ by_teacher' = Frame(FALSE, <<>>)
  /\ filtered_df' = Frame(FALSE, <<>>)
  /\ view' = NoView
  /\ UNCHANGED uploaded_files

Next == ProcessFile \/ NoData \/ Render \/ Rerun

Spec == Init /\ [][Next]_vars

-----------------------------------------------------------------------------
(* What the properties below are stated with *)

\* whether text t occurs in text s
Contains(s, t) == \E i \in 1..(Len(s) + 1) : MatchesAt(s, i, t)

\* the files the loop has been through
Processed == SubSeq(uploaded_files, 1, idx - 1)

\* the file of the last iteration
LastFile == uploaded_files[idx - 1]

\* a file whose parser yields a table: readable, and for SpreadsheetML with
\* an ss:Table of at least two rows
YieldsTable(f) ==
  /\ f.readable
  /\ f.head_xml => (f.has_table /\ Len(f.grid) >= 2)

TrimmedHeader(f) == [j \in 1..Len(f.grid[1]) |-> Strip(f.grid[1][j])]

\* the position of the contributor column by the stated precedence, 0 when
\* the header resolves to none
ContributorColumn(header) ==
  IF \E j \in 1..Len(header) : header[j] = "Teacher Name"
  THEN CHOOSE j \in 1..Len(header) : header[j] = "Teacher Name"
  ELSE IF \E j \in 1..Len(header) : header[j] = "Created By"
  THEN CHOOSE j \in 1..Len(header) : header[j] = "Created By"
  ELSE IF Len(header) = 1 THEN 1
  ELSE 0

\* a file that fails: a parse error, a missing XML table, fewer than two XML
\* rows, or a header with no resolvable contributor column
FileFails(f) ==
  \/ ~f.readable
  \/ f.head_xml /\ ~f.has_table
  \/ f.head_xml /\ Len(f.grid) < 2
  \/ YieldsTable(f) /\ ContributorColumn(TrimmedHeader(f)) = 0

Succeeded == SelectSeq(Processed, LAMBDA f : ~FileFails(f))

Failed == SelectSeq(Processed, FileFails)

\* the table of the summary without its Total row
ContributorRows(t) == 1..(Len(t.names) - 1)

\* the contributors and the categories among the filtered records
FilteredTeachers == {filtered_df.rows[i].teacher : i \in 1..Len(filtered_df.rows)}

FilteredTypes == {filtered_df.rows[i].rtype : i \in 1..Len(filtered_df.rows)}

RECURSIVE SetSum(_, _)
\* the sum of f[x] over the x in S
SetSum(f, S) ==
  IF S = {} THEN 0
  ELSE LET x == CHOOSE y \in S : TRUE IN f[x] + SetSum(f, S \ {x})

Shown == pc = "done" /\ view.summary # NoTable

-----------------------------------------------------------------------------
(* C1 *)

\* C1: whatever files among those processed failed, the loop went on: the
\* frames in raw_data are exactly the normalized frames of the files that
\* succeeded, in order, with nothing from a failed file; every failed file
\* has its own warning or error naming it; and the script only finishes
\* once it has been through every uploaded file.
C1_SkipNotAbort ==
  /\ Len(raw_data) = Len(Succeeded)
  /\ \A k \in 1..Len(Succeeded) : raw_data[k] = TryFile(Succeeded[k]).df
  /\ Concat(raw_data).rows = Concat([k \in 1..Len(Succeeded) |-> TryFile(Succeeded[k]).df]).rows
  /\ Len(messages) >= Len(Failed)
  /\ pc = "ingest" => Len(messages) = Len(Failed)
  /\ \A k \in 1..Len(Failed) :
       /\ messages[k].level \in {"warning", "error"}
       /\ Contains(messages[k].text, Failed[k].name)
  /\ pc = "done" => idx = Len(uploaded_files) + 1

\* a failed file was followed by a file that succeeded, and the run is over
C1_Witness ==
  /\ pc = "done"
  /\ \E i, j \in 1..Len(uploaded_files) :
       /\ i < j
       /\ FileFails(uploaded_files[i])
       /\ ~uploaded_files[i].readable
       /\ ~FileFails(uploaded_files[j])
  /\ raw_data # <<>>
  /\ Concat(raw_data).rows # <<>>

-----------------------------------------------------------------------------
(* C2 *)

\* C2 (as the claim states it): when the summary is shown, its bottom-right
\* cell is the number of filtered records, every contributor row's Total is
\* the sum of the row's cells in the category columns, and every entry of
\* the Total row is the sum of its column over the contributor rows.
C2_TotalsAsClaimed ==
  Shown =>
    LET t == view.summary
        last == Len(t.names)
        total == Len(t.columns)
    IN /\ t.cells[last][total] = Len(filtered_df.rows)
       /\ \A i \in ContributorRows(t) :
            t.cells[i][total] =
              SetSum([c \in FilteredTypes |-> t.cells[i][ColumnIndex(t.columns, c)]],
                     FilteredTypes)
       /\ \A j \in 1..Len(t.columns) :
            t.cells[last][j] =
              SetSum([i \in ContributorRows(t) |-> t.cells[i][j]], ContributorRows(t))

-----------------------------------------------------------------------------
(* C3 *)

\* C3 (as the claim states it): when the summary is shown, every contributor
\* and every category among the filtered records have a row and a column,
\* and the cell there is the number of filtered records of that contributor
\* and category (0 when the two never occur together).
C3_CellsAsClaimed ==
  Shown =>
    LET t == view.summary
    IN \A r \in FilteredTeachers, c \in FilteredTypes :
         /\ \E i \in ContributorRows(t) : t.names[i] = r
         /\ c \in Range(t.columns)
         /\ \A i \in ContributorRows(t) :
              t.names[i] = r =>
                t.cells[i][ColumnIndex(t.columns, c)] = GroupSize(filtered_df.rows, r, c)

-----------------------------------------------------------------------------
(* C4 *)

\* C4 (as the claim states it): when a date range is applied, every record
\* without a created value that passed the contributor filter is still in
\* the filtered set.
C4_UndatedKeptAsClaimed ==
  (pc = "done" /\ date_range # NoRange) =>
    \A i \in 1..Len(by_teacher.rows) :
      by_teacher.rows[i].created.isna => by_teacher.rows[i] \in Range(filtered_df.rows)

-----------------------------------------------------------------------------
(* C5 *)

\* C5 (as the claim states it): when the range [start, end] is applied, a
\* record with a created timestamp is kept iff
\* start 00:00:00.000 <= created <= end 23:59:59.999.
C5_FullEndDayAsClaimed ==
  (pc = "done" /\ date_range # NoRange) =>
    \A i \in 1..Len(by_teacher.rows) :
      LET r == by_teacher.rows[i]
      IN ~r.created.isna =>
           (r \in Range(filtered_df.rows) <=>
              /\ TsLe(Timestamp(date_range[1], 0), r.created)
              /\ TsLe(r.created, Timestamp(date_range[2], MsPerDay - 1)))

-----------------------------------------------------------------------------
(* C6 *)

\* the records of the merged frame whose contributor is in S, in order
RecordsOf(S) ==
  LET all == Concat(raw_data).rows
      RECURSIVE Take(_)
      Take(n) == IF n = 0 THEN <<>>
                 ELSE IF all[n].teacher \in S THEN Append(Take(n - 1), all[n])
                 ELSE Take(n - 1)
  IN Take(Len(all))

AllTeachers == {Concat(raw_data).rows[i].teacher : i \in 1..Len(Concat(raw_data).rows)}

\* C6 (as the claim states it): an empty selection keeps the records of all
\* contributors; a non-empty set of contributors keeps exactly theirs.
C6_EmptyIsAllAsClaimed ==
  (pc = "done" /\ raw_data # <<>>) =>
    /\ selection = {} => by_teacher.rows = RecordsOf(AllTeachers)
    /\ (selection # {} /\ all_option \notin selection) =>
         by_teacher.rows = RecordsOf(selection)

\* C6 (amended): a selection that includes the "All (Select All)" option
\* keeps the records of all contributors, as if every contributor had been
\* selected; any other selection keeps exactly the records whose contributor
\* is in it, so an empty selection keeps no record.
C6_AllOptionIsAll ==
  (pc = "done" /\ raw_data # <<>>) =>
    /\ all_option \in selection => by_teacher.rows = RecordsOf(AllTeachers)
    /\ all_option \notin selection => by_teacher.rows = RecordsOf(selection)
    /\ selection = {} => by_teacher.rows = <<>>

\* nothing is selected, the merged frame has records, and none is kept
C6_Witness ==
  /\ pc = "done"
  /\ selection = {}
  /\ Concat(raw_data).rows # <<>>
  /\ by_teacher.rows = <<>>
  /\ view.notice = "No data after filtering."

-----------------------------------------------------------------------------
(* C7 *)

\* the contributor values of column k of the file's data rows: missing
\* values blank, trimmed, the blank ones dropped
ContributorsOf(f, k) ==
  LET RECURSIVE From(_)
      From(i) == IF i > Len(f.grid) THEN <<>>
                 ELSE LET v == IF f.grid[i][k] = NaN THEN "" ELSE Strip(f.grid[i][k])
                      IN IF v = "" THEN From(i + 1) ELSE <<v>> \o From(i + 1)
  IN From(2)

\* C7: after the loop has been through a file that yields a table, the
\* contributor column is the one the precedence names on the trimmed labels
\* ("Teacher Name", else "Created By", else the sole column): the file's
\* frame is the last of raw_data and its contributors are that column's
\* values; with no such column the file is skipped with the warning
\* "unknown teacher column" and adds no frame.
C7_ContributorPrecedence ==
  (pc = "ingest" /\ idx > 1 /\ YieldsTable(LastFile)) =>
    LET k == ContributorColumn(TrimmedHeader(LastFile))
    IN IF k # 0
       THEN /\ raw_data # <<>>
            /\ Len(raw_data) + Len(messages) = idx - 1
            /\ LET rows == raw_data[Len(raw_data)].rows
               IN [i \in 1..Len(rows) |-> rows[i].teacher] = ContributorsOf(LastFile, k)
       ELSE /\ messages # <<>>
            /\ Len(raw_data) = Len(SelectSeq(SubSeq(uploaded_files, 1, idx - 2),
                                             LAMBDA f : ~FileFails(f)))
            /\ messages[Len(messages)] =
                 Message("warning",
                         "Skipped " \o LastFile.name \o " due to unknown teacher column.")

\* the last file has both a "Created By" and a "Teacher Name" column, and
\* its frame carries the values of the latter
C7_Witness ==
  /\ pc = "ingest"
  /\ idx > 1
  /\ YieldsTable(LastFile)
  /\ "Created By" \in Range(TrimmedHeader(LastFile))
  /\ "Teacher Name" \in Range(TrimmedHeader(LastFile))
  /\ raw_data # <<>>
  /\ raw_data[Len(raw_data)].rows # <<>>
  /\ raw_data[Len(raw_data)].rows[1].teacher = "Bob"

-----------------------------------------------------------------------------
(* C8 *)

\* C8: for every split of the ingested frames into A followed by B, merging
\* them as B followed by A and aggregating under the same filter gives the
\* table, charts and notice the script shows.
C8_OrderOfFilesImmaterial ==
  (pc = "done" /\ raw_data # <<>>) =>
    \A k \in 1..(Len(raw_data) - 1) :
      LET A == SubSeq(raw_data, 1, k)
          B == SubSeq(raw_data, k + 1, Len(raw_data))
      IN Aggregate(B \o A, selection, date_range).view = view

\* two frames of different categories were merged and a summary is shown
C8_Witness ==
  /\ Shown
  /\ Len(raw_data) >= 2
  /\ raw_data[1].rows # <<>>
  /\ raw_data[2].rows # <<>>
  /\ StrLess(raw_data[2].rows[1].rtype, raw_data[1].rows[1].rtype)
  /\ Len(view.summary.columns) >= 3

-----------------------------------------------------------------------------
(* C9 *)

\* C9: when the filters leave no record of a merged frame that has records,
\* the script shows only the "No data after filtering" warning: no summary
\* table, no chart data, no download; and a summary that is shown has a
\* record behind every contributor row, never a row of zeros.
C9_EmptyResult ==
  /\ (pc = "done" /\ Concat(raw_data).rows # <<>> /\ filtered_df.rows = <<>>) =>
       /\ view.summary = NoTable
       /\ view.chart_data = NoTable
       /\ view.pie_data = <<>>
       /\ ~view.download
       /\ messages # <<>>
       /\ messages[Len(messages)] = Message("warning", "No data after filtering.")
  /\ Shown =>
       /\ filtered_df.rows # <<>>
       /\ \A i \in ContributorRows(view.summary) :
            \E j \in 1..Len(view.summary.columns) : view.summary.cells[i][j] > 0

\* a date range that holds none of the selected teachers' records
C9_Witness ==
  /\ pc = "done"
  /\ date_range # NoRange
  /\ by_teacher.rows # <<>>
  /\ filtered_df.rows = <<>>
  /\ view.notice = "No data after filtering."

-----------------------------------------------------------------------------
(* C10 *)

\* the name without its last dot and what follows it
WithoutExtension(name) ==
  LET RECURSIVE Cut(_)
      Cut(n) == IF n = 0 THEN name
                ELSE IF Char(name, n) = "." THEN SubSeq(name, 1, n - 1)
                ELSE Cut(n - 1)
  IN Cut(Len(name))

\* the tokens the lower-cased name contains
TokensIn(name) == {k \in 1..Len(Tokens) : Contains(Lower(name), Tokens[k])}

\* C10: the frame of a file that succeeded carries one category in all its
\* records: a token its name contains (whatever the case), capitalized, or,
\* when the name contains none, the name without its extension, capitalized;
\* so Weekly_Quiz_Report.csv gives "Quiz" and custom_export.csv gives
\* "Custom_export".
C10_CategoryFromFileName ==
  (pc = "ingest" /\ idx > 1 /\ ~FileFails(LastFile)) =>
    /\ raw_data # <<>>
    /\ LET rows == raw_data[Len(raw_data)].rows
           name == LastFile.name
       IN \A i \in 1..Len(rows) :
            /\ rows[i].rtype = rows[1].rtype
            /\ IF TokensIn(name) # {}
               THEN \E k \in TokensIn(name) : rows[i].rtype = Capitalize(Tokens[k])
               ELSE rows[i].rtype = Capitalize(WithoutExtension(name))
            /\ name = "Weekly_Quiz_Report.csv" => rows[i].rtype = "Quiz"
            /\ name = "custom_export.csv" => rows[i].rtype = "Custom_export"

\* the last file's name holds a token in another case, and its records
\* carry the token capitalized
C10_Witness ==
  /\ pc = "ingest"
  /\ idx > 1
  /\ LastFile.name = "Weekly_Quiz_Report.csv"
  /\ raw_data # <<>>
  /\ Len(raw_data[Len(raw_data)].rows) = 2
  /\ raw_data[Len(raw_data)].rows[2].rtype = "Quiz"

====
